---------------------------- MODULE Spec2Model ----------------------------
(***************************************************************************)
(* State-machine model of pymanoid's two differential-IK solvers:          *)
(*   DiffIKSolver   (src/pymanoid/inverse_kinematics.py)                   *)
(*   VelocitySolver (src/pymanoid/ik.py)                                   *)
(* One solver object is modelled at a time; cls says which class it is.    *)
(* Every method is cut into steps at the places where it touches shared    *)
(* state (the task dictionaries, the lock), so that calls made by several  *)
(* threads interleave as Python threads do.                                *)
(*                                                                         *)
(* Numbers.  Gains and doflim_gain are kept in halves (gain2 = 2*gain),    *)
(* the time step in halves (dt2 = 2*dt), positions as integers, and every  *)
(* velocity in units of 1/U.  With these input sets all quantities of the  *)
(* source are exact integers in the model.                                 *)
(***************************************************************************)
EXTENDS Integers, Sequences, FiniteSets, TLC

VARIABLES
    cls,              \* "DiffIK" or "Velocity": the class of the solver object
    tasks,            \* self.tasks: name -> TRUE (DiffIK) or name -> Task (Velocity)
    errors,           \* DiffIK self.errors: name -> error function
    jacobians,        \* DiffIK self.jacobians: name -> jacobian function
    gains,            \* DiffIK self.gains: name -> gain
    weights,          \* DiffIK self.weights: name -> weight
    default_gains,    \* DiffIK self.default_gains
    default_weights,  \* DiffIK self.default_weights
    tasks_lock,       \* self.tasks_lock: 0 when free, else the thread holding it
    doflim_gain,      \* self.doflim_gain / self.K_doflim, in halves
    q,                \* robot.q restricted to the active DOF
    qd,               \* VelocitySolver self.qd, full dimension
    pc,               \* per thread: the step it is at
    loc,              \* per thread: arguments and locals of the running call
    ret,              \* per thread: outcome of its last finished call
    history           \* whether calls remember the registry they started from

vars == <<cls, tasks, errors, jacobians, gains, weights, default_gains,
          default_weights, tasks_lock, doflim_gain, q, qd, pc, loc, ret,
          history>>

registry == <<tasks, errors, jacobians, gains, weights>>
config == <<cls, default_gains, default_weights, doflim_gain, history>>

-----------------------------------------------------------------------------
(* Bounds of the model *)

QLim == 3
MaxTarget == 5

AllThreads == {1, 2}
Names == {"a", "b"}
NoType == ""
Types == {"ty"}
None == <<>>
Some(x) == <<x>>
Val(o) == o[1]

(* Velocity grid: U units per unit of velocity. *)
U == 16

(* robot.nb_dofs and active_dofs: two joints, the first one active. *)
nb_dofs == 2
active_dofs == <<1>>

q_max == QLim
q_min == -QLim

EmptyMap == [n \in {} |-> 0]
Put(f, k, v) == [n \in DOMAIN f \cup {k} |-> IF n = k THEN v ELSE f[n]]
Del(f, k) == [n \in DOMAIN f \ {k} |-> f[n]]

-----------------------------------------------------------------------------
(* Task objects of VelocitySolver.  The Task class is not part of the      *)
(* sources at hand: a task is a record of the attributes the solver uses   *)
(* (name, weight) plus what its jacobian() and residual(dt) are computed   *)
(* from (a constant Jacobian J, a gain and a target position).             *)

NoTask == [name |-> "", weight |-> 0, gain |-> 0, target |-> 0, J |-> 0]

(* task.check(): the validity check made before registration. *)
TaskCheck(task) == task.weight > 0 /\ task.gain >= 0 /\ task.gain <= 2

-----------------------------------------------------------------------------
(* Thread-local state *)

NoSnap == <<>>

Loc0 == [name |-> "", task |-> NoTask, error |-> 0, jacobian |-> 0,
         gain |-> None, weight |-> None, task_type |-> NoType,
         unit_gain |-> FALSE, method |-> "", dt2 |-> 0,
         seen |-> {}, cur |-> "", size |-> 0, sum |-> 0,
         J |-> 0, P |-> 0, qv |-> 0, lo |-> 0, hi |-> 0,
         snap |-> NoSnap]

NoRet == [op |-> "", kind |-> "", val |-> None]

(* A call returns or raises: the thread is idle again and ret holds the outcome. *)
Return(t, op, kind, val) ==
    /\ pc' = [pc EXCEPT ![t] = "idle"]
    /\ loc' = [loc EXCEPT ![t] = Loc0]
    /\ ret' = [ret EXCEPT ![t] = [op |-> op, kind |-> kind, val |-> val]]

Goto(t, label) == pc' = [pc EXCEPT ![t] = label]

(* Entering a call: arguments bound, previous outcome dropped.  The       *)
(* registry at the time of the call is remembered (history only).          *)
Call(t, label, args) ==
    /\ pc[t] = "idle"
    /\ pc' = [pc EXCEPT ![t] = label]
    /\ loc' = [loc EXCEPT ![t] = args]
    /\ ret' = [ret EXCEPT ![t] = NoRet]

(* "with self.tasks_lock:" entry and exit *)
Acquire(t) == tasks_lock = 0 /\ tasks_lock' = t
Release(t) == tasks_lock' = IF tasks_lock = t THEN 0 ELSE tasks_lock

-----------------------------------------------------------------------------
(* History: the registry as it was when the running call was entered. *)
Registry == [tasks |-> tasks, errors |-> errors, jacobians |-> jacobians,
             gains |-> gains, weights |-> weights]
Snap == IF history THEN Some(Registry) ELSE NoSnap

-----------------------------------------------------------------------------
(* VelocitySolver.add_task(task)                            ik.py 74-90 *)

V_add_task(t, task) ==
    /\ cls = "Velocity"
    /\ Call(t, "add_chk", [Loc0 EXCEPT !.task = task, !.name = task.name,
                                       !.snap = Snap])
    /\ UNCHANGED <<registry, config, tasks_lock, q, qd>>

(* V_add_task_check without the membership test of lines 87-88 *)
V_add_task_check_NoDuplicateTest(t) ==
    /\ cls = "Velocity"
    /\ pc[t] = "add_chk"
    /\ IF ~TaskCheck(loc[t].task)
          THEN Return(t, "add_task", "check", None)
          ELSE Goto(t, "add_lock") /\ UNCHANGED <<loc, ret>>
    /\ UNCHANGED <<registry, config, tasks_lock, q, qd>>

(* lines 86-88: task.check(), then the membership test, both before the lock *)
V_add_task_check(t) ==
    /\ cls = "Velocity"
    /\ pc[t] = "add_chk"
    /\ IF ~TaskCheck(loc[t].task)
          THEN Return(t, "add_task", "check", None)
          ELSE IF loc[t].name \in DOMAIN tasks
                  THEN Return(t, "add_task", "dup", None)
                  ELSE Goto(t, "add_lock") /\ UNCHANGED <<loc, ret>>
    /\ UNCHANGED <<registry, config, tasks_lock, q, qd>>

(* line 89 (ik.py) and line 86 (inverse_kinematics.py): with self.tasks_lock *)
add_task_lock(t) ==
    /\ pc[t] = "add_lock"
    /\ Acquire(t)
    /\ Goto(t, "add_ins")
    /\ UNCHANGED <<registry, config, q, qd, loc, ret>>

(* line 90: self.tasks[task.name] = task, then the lock is released *)
V_add_task_insert(t) ==
    /\ cls = "Velocity"
    /\ pc[t] = "add_ins"
    /\ tasks' = Put(tasks, loc[t].name, loc[t].task)
    /\ Release(t)
    /\ Return(t, "add_task", "ok", None)
    /\ UNCHANGED <<errors, jacobians, gains, weights, config, q, qd>>

-----------------------------------------------------------------------------
(* DiffIKSolver.add_task(name, error, jacobian, gain, weight, task_type,   *)
(*                       unit_gain)              inverse_kinematics.py 51-118 *)

D_add_task(t, args) ==
    /\ cls = "DiffIK"
    /\ Call(t, "add_chk", [Loc0 EXCEPT !.name = args.name,
                                       !.error = args.error,
                                       !.jacobian = args.jacobian,
                                       !.gain = args.gain,
                                       !.weight = args.weight,
                                       !.task_type = args.task_type,
                                       !.unit_gain = args.unit_gain,
                                       !.snap = Snap])
    /\ UNCHANGED <<registry, config, tasks_lock, q, qd>>

(* lines 84-85: the membership test, before the lock *)
D_add_task_check(t) ==
    /\ cls = "DiffIK"
    /\ pc[t] = "add_chk"
    /\ IF loc[t].name \in DOMAIN tasks
          THEN Return(t, "add_task", "dup", None)
          ELSE Goto(t, "add_lock") /\ UNCHANGED <<loc, ret>>
    /\ UNCHANGED <<registry, config, tasks_lock, q, qd>>

(* line 87: self.tasks[name] = True *)
D_add_task_insert(t) ==
    /\ cls = "DiffIK"
    /\ pc[t] = "add_ins"
    /\ tasks' = Put(tasks, loc[t].name, TRUE)
    /\ Goto(t, "add_fns")
    /\ UNCHANGED <<errors, jacobians, gains, weights, config, tasks_lock,
                   q, qd, loc, ret>>

(* lines 88-89: self.errors[name] = error; self.jacobians[name] = jacobian *)
D_add_task_functions(t) ==
    /\ cls = "DiffIK"
    /\ pc[t] = "add_fns"
    /\ errors' = Put(errors, loc[t].name, loc[t].error)
    /\ jacobians' = Put(jacobians, loc[t].name, loc[t].jacobian)
    /\ Goto(t, "add_gain")
    /\ UNCHANGED <<tasks, gains, weights, config, tasks_lock, q, qd, loc, ret>>

(* D_add_task_gain looking up the per-type default before the per-name one *)
D_add_task_gain_TypeFirst(t) ==
    LET name == loc[t].name
        ty == loc[t].task_type
    IN  /\ cls = "DiffIK"
        /\ pc[t] = "add_gain"
        /\ IF loc[t].unit_gain
              THEN /\ gains' = Del(gains, name)
                   /\ Goto(t, "add_weight")
                   /\ UNCHANGED <<tasks_lock, loc, ret>>
           ELSE IF loc[t].gain # None
              THEN /\ gains' = Put(gains, name, Val(loc[t].gain))
                   /\ Goto(t, "add_weight")
                   /\ UNCHANGED <<tasks_lock, loc, ret>>
           ELSE IF ty \in DOMAIN default_gains
              THEN /\ gains' = Put(gains, name, default_gains[ty])
                   /\ Goto(t, "add_weight")
                   /\ UNCHANGED <<tasks_lock, loc, ret>>
           ELSE IF name \in DOMAIN default_gains
              THEN /\ gains' = Put(gains, name, default_gains[name])
                   /\ Goto(t, "add_weight")
                   /\ UNCHANGED <<tasks_lock, loc, ret>>
           ELSE    /\ Release(t)
                   /\ Return(t, "add_task", "nogain", None)
                   /\ UNCHANGED gains
        /\ UNCHANGED <<tasks, errors, jacobians, weights, config, q, qd>>

(* lines 90-103: the gain, from the argument, the per-name default or the  *)
(* per-type default; a unit_gain task has no entry in self.gains           *)
D_add_task_gain(t) ==
    LET name == loc[t].name
        ty == loc[t].task_type
    IN  /\ cls = "DiffIK"
        /\ pc[t] = "add_gain"
        /\ IF loc[t].unit_gain
              THEN /\ gains' = Del(gains, name)
                   /\ Goto(t, "add_weight")
                   /\ UNCHANGED <<tasks_lock, loc, ret>>
           ELSE IF loc[t].gain # None
              THEN /\ gains' = Put(gains, name, Val(loc[t].gain))
                   /\ Goto(t, "add_weight")
                   /\ UNCHANGED <<tasks_lock, loc, ret>>
           ELSE IF name \in DOMAIN default_gains
              THEN /\ gains' = Put(gains, name, default_gains[name])
                   /\ Goto(t, "add_weight")
                   /\ UNCHANGED <<tasks_lock, loc, ret>>
           ELSE IF ty \in DOMAIN default_gains
              THEN /\ gains' = Put(gains, name, default_gains[ty])
                   /\ Goto(t, "add_weight")
                   /\ UNCHANGED <<tasks_lock, loc, ret>>
           ELSE    /\ Release(t)
                   /\ Return(t, "add_task", "nogain", None)
                   /\ UNCHANGED gains
        /\ UNCHANGED <<tasks, errors, jacobians, weights, config, q, qd>>

(* lines 104-114: the weight, by the same chain *)
D_add_task_weight(t) ==
    LET name == loc[t].name
        ty == loc[t].task_type
    IN  /\ cls = "DiffIK"
        /\ pc[t] = "add_weight"
        /\ IF loc[t].weight # None
              THEN /\ weights' = Put(weights, name, Val(loc[t].weight))
                   /\ Goto(t, "add_assert")
                   /\ UNCHANGED <<tasks_lock, loc, ret>>
           ELSE IF name \in DOMAIN default_weights
              THEN /\ weights' = Put(weights, name, default_weights[name])
                   /\ Goto(t, "add_assert")
                   /\ UNCHANGED <<tasks_lock, loc, ret>>
           ELSE IF ty \in DOMAIN default_weights
              THEN /\ weights' = Put(weights, name, default_weights[ty])
                   /\ Goto(t, "add_assert")
                   /\ UNCHANGED <<tasks_lock, loc, ret>>
           ELSE    /\ Release(t)
                   /\ Return(t, "add_task", "noweight", None)
                   /\ UNCHANGED weights
        /\ UNCHANGED <<tasks, errors, jacobians, gains, config, q, qd>>

(* lines 115-118: the two assertions (gain < 1 + 1e-10 is gain2 <= 2 on    *)
(* the half-unit grid), then the lock is released                          *)
D_add_task_assert(t) ==
    LET name == loc[t].name
    IN  /\ cls = "DiffIK"
        /\ pc[t] = "add_assert"
        /\ Release(t)
        /\ IF ~(loc[t].unit_gain \/ gains[name] <= 2)
              THEN Return(t, "add_task", "badgain", None)
           ELSE IF ~(weights[name] > 0)
              THEN Return(t, "add_task", "badweight", None)
           ELSE Return(t, "add_task", "ok", None)
        /\ UNCHANGED <<registry, config, q, qd>>

-----------------------------------------------------------------------------
(* remove_task(name)     ik.py 114-126, inverse_kinematics.py 120-125 *)

remove_task(t, name) ==
    /\ Call(t, "rm_lock", [Loc0 EXCEPT !.name = name, !.snap = Snap])
    /\ UNCHANGED <<registry, config, tasks_lock, q, qd>>

remove_task_lock(t) ==
    /\ pc[t] = "rm_lock"
    /\ Acquire(t)
    /\ Goto(t, "rm_body")
    /\ UNCHANGED <<registry, config, q, qd, loc, ret>>

(* remove_task_body without the membership test: del raises KeyError *)
remove_task_body_NoMembershipTest(t) ==
    /\ pc[t] = "rm_body"
    /\ Release(t)
    /\ IF loc[t].name \notin DOMAIN tasks
          THEN /\ Return(t, "remove_task", "keyerror", None)
               /\ UNCHANGED tasks
          ELSE /\ tasks' = Del(tasks, loc[t].name)
               /\ Return(t, "remove_task", "ok", None)
    /\ UNCHANGED <<errors, jacobians, gains, weights, config, q, qd>>

(* absent: warn and return; present: del self.tasks[name] *)
remove_task_body(t) ==
    /\ pc[t] = "rm_body"
    /\ Release(t)
    /\ IF loc[t].name \notin DOMAIN tasks
          THEN /\ Return(t, "remove_task", "warn", None)
               /\ UNCHANGED tasks
          ELSE /\ tasks' = Del(tasks, loc[t].name)
               /\ Return(t, "remove_task", "ok", None)
    /\ UNCHANGED <<errors, jacobians, gains, weights, config, q, qd>>

-----------------------------------------------------------------------------
(* VelocitySolver.get_task(name)                            ik.py 96-112 *)

get_task(t, name) ==
    /\ cls = "Velocity"
    /\ Call(t, "get_lock", [Loc0 EXCEPT !.name = name, !.snap = Snap])
    /\ UNCHANGED <<registry, config, tasks_lock, q, qd>>

get_task_lock(t) ==
    /\ pc[t] = "get_lock"
    /\ Acquire(t)
    /\ Goto(t, "get_body")
    /\ UNCHANGED <<registry, config, q, qd, loc, ret>>

(* absent: warn and return None; present: return self.tasks[name] *)
get_task_body(t) ==
    /\ pc[t] = "get_body"
    /\ Release(t)
    /\ IF loc[t].name \notin DOMAIN tasks
          THEN Return(t, "get_task", "warn", None)
          ELSE Return(t, "get_task", "ok", Some(tasks[loc[t].name]))
    /\ UNCHANGED <<registry, config, q, qd>>

-----------------------------------------------------------------------------
(* Callbacks and task methods.  An error function is identified by its     *)
(* target (error(q, qd, dt) = target - q), a jacobian function by the      *)
(* constant it returns.                                                    *)

ErrorFn(target, qq) == target - qq
JacobianFn(j, qq) == j

(* task.jacobian()[:, active_dofs] and task.residual(dt) of a Task object: *)
(* residual(dt) = gain * (target - q) / dt, in velocity units              *)
TaskJacobian(task) == task.J
TaskResidual(task, qq, dt2) == task.gain * (task.target - qq) * (U \div dt2)
(* task.cost(dt) = weight * |residual(dt)|^2 *)
TaskCost(task, qq, dt2) ==
    task.weight * TaskResidual(task, qq, dt2) * TaskResidual(task, qq, dt2)

Min(a, b) == IF a <= b THEN a ELSE b
Max(a, b) == IF a >= b THEN a ELSE b

-----------------------------------------------------------------------------
(* compute_cost     ik.py 128-129, inverse_kinematics.py 127-134           *)
(* sum() over an iterator of self.tasks; the lock is not taken.  The       *)
(* iterator is created when the call starts and remembers the size of the  *)
(* dictionary; next() raises RuntimeError when that size has changed.      *)

compute_cost(t, dt2) ==
    /\ Call(t, "cost_next", [Loc0 EXCEPT !.dt2 = dt2,
                                         !.size = Cardinality(DOMAIN tasks)])
    /\ UNCHANGED <<registry, config, tasks_lock, q, qd>>

(* next(): a key not yet visited; for VelocitySolver (itervalues) the      *)
(* value under it.  When no key is left the sum is returned.               *)
compute_cost_next(t) ==
    /\ pc[t] = "cost_next"
    /\ IF Cardinality(DOMAIN tasks) # loc[t].size
          THEN Return(t, "compute_cost", "runtime", None)
          ELSE \/ /\ DOMAIN tasks \subseteq loc[t].seen
                  /\ Return(t, "compute_cost", "ok", Some(loc[t].sum))
               \/ \E name \in DOMAIN tasks \ loc[t].seen :
                  /\ loc' = [loc EXCEPT ![t].cur = name,
                                        ![t].task = IF cls = "Velocity"
                                                       THEN tasks[name]
                                                       ELSE NoTask]
                  /\ Goto(t, "cost_term")
                  /\ UNCHANGED ret
    /\ UNCHANGED <<registry, config, tasks_lock, q, qd>>

(* one term: task.cost(dt), or self.weights[task] * sq(self.errors[task](q, qd, dt)) *)
compute_cost_term(t) ==
    LET name == loc[t].cur
    IN  /\ pc[t] = "cost_term"
        /\ IF cls = "Velocity"
              THEN /\ loc' = [loc EXCEPT
                        ![t].sum = @ + TaskCost(loc[t].task, q, loc[t].dt2),
                        ![t].seen = @ \cup {name}]
                   /\ Goto(t, "cost_next")
                   /\ UNCHANGED ret
           ELSE IF name \notin DOMAIN weights \/ name \notin DOMAIN errors
              THEN Return(t, "compute_cost", "keyerror", None)
           ELSE    /\ loc' = [loc EXCEPT
                        ![t].sum = @ + weights[name] * ErrorFn(errors[name], q)
                                                   * ErrorFn(errors[name], q),
                        ![t].seen = @ \cup {name}]
                   /\ Goto(t, "cost_next")
                   /\ UNCHANGED ret
        /\ UNCHANGED <<registry, config, tasks_lock, q, qd>>

-----------------------------------------------------------------------------
(* The cost assembly:  VelocitySolver.__compute_qp_common  ik.py 131-146,  *)
(* DiffIKSolver.compute_velocity      inverse_kinematics.py 136-149        *)

(* compute_velocity starting the accumulation from the identity, not zeros *)
compute_velocity_IdentityP(t, dt2, method) ==
    /\ cls = "DiffIK" => method = "fast"
    /\ Call(t, "qp_lock", [Loc0 EXCEPT !.dt2 = dt2, !.method = method, !.P = 1])
    /\ UNCHANGED <<registry, config, tasks_lock, q, qd>>

(* compute_velocity(dt, method): dispatch to fast / safe (ik.py 234-250);  *)
(* DiffIKSolver.compute_velocity(q, qd, dt) has the one strategy.  The     *)
(* accumulators P and q start as zeros (ik.py 134-135, inv. 137-138).      *)
compute_velocity(t, dt2, method) ==
    /\ cls = "DiffIK" => method = "fast"
    /\ Call(t, "qp_lock", [Loc0 EXCEPT !.dt2 = dt2, !.method = method])
    /\ UNCHANGED <<registry, config, tasks_lock, q, qd>>

(* qp_lock without taking the lock *)
qp_lock_NoAcquire(t) ==
    /\ pc[t] = "qp_lock"
    /\ loc' = [loc EXCEPT ![t].size = Cardinality(DOMAIN tasks)]
    /\ Goto(t, "qp_next")
    /\ UNCHANGED <<registry, config, tasks_lock, q, qd, ret>>

(* with self.tasks_lock: the iterator over self.tasks is created inside *)
qp_lock(t) ==
    /\ pc[t] = "qp_lock"
    /\ Acquire(t)
    /\ loc' = [loc EXCEPT ![t].size = Cardinality(DOMAIN tasks)]
    /\ Goto(t, "qp_next")
    /\ UNCHANGED <<registry, config, q, qd, ret>>

(* for task in ...: next task and its Jacobian (ik.py 137-138, inv. 140-141) *)
qp_next(t) ==
    /\ pc[t] = "qp_next"
    /\ IF Cardinality(DOMAIN tasks) # loc[t].size
          THEN /\ Release(t)
               /\ Return(t, "compute_velocity", "runtime", None)
          ELSE \/ /\ DOMAIN tasks \subseteq loc[t].seen
                  /\ Goto(t, "qp_bounds")
                  /\ UNCHANGED <<tasks_lock, loc, ret>>
               \/ \E name \in DOMAIN tasks \ loc[t].seen :
                  IF cls = "Velocity"
                     THEN /\ loc' = [loc EXCEPT
                                ![t].cur = name,
                                ![t].task = tasks[name],
                                ![t].J = TaskJacobian(tasks[name])]
                          /\ Goto(t, "qp_res")
                          /\ UNCHANGED <<tasks_lock, ret>>
                  ELSE IF name \notin DOMAIN jacobians
                     THEN /\ Release(t)
                          /\ Return(t, "compute_velocity", "keyerror", None)
                  ELSE    /\ loc' = [loc EXCEPT
                                ![t].cur = name,
                                ![t].J = JacobianFn(jacobians[name], q)]
                          /\ Goto(t, "qp_res")
                          /\ UNCHANGED <<tasks_lock, ret>>
    /\ UNCHANGED <<registry, config, q, qd>>

(* the target term of a DiffIK task (inv. 142-145): gain * error / dt, or  *)
(* the error itself for a task without an entry in self.gains              *)
D_target_term(name, dt2) ==
    IF name \in DOMAIN gains
       THEN gains[name] * ErrorFn(errors[name], q) * (U \div dt2)
       ELSE ErrorFn(errors[name], q) * U

(* P += weight * J.T J;  q += weight * (-r.T J)   (ik.py 140-141, inv. 146-147) *)
AccumulateP(P, w, J) == P + w * J * J
(* AccumulateQ without the weight *)
AccumulateQ_NoWeight(qv, w, r, J) == qv + (-r) * J
(* AccumulateQ with the sign of the residual lost *)
AccumulateQ_WrongSign(qv, w, r, J) == qv + w * r * J
AccumulateQ(qv, w, r, J) == qv + w * (-r) * J

(* residual of the task and accumulation (ik.py 139-141, inv. 142-147) *)
qp_res(t) ==
    LET name == loc[t].cur
        J == loc[t].J
    IN  /\ pc[t] = "qp_res"
        /\ IF cls = "Velocity"
              THEN LET r == TaskResidual(loc[t].task, q, loc[t].dt2)
                       w == loc[t].task.weight
                   IN  /\ loc' = [loc EXCEPT
                             ![t].P = AccumulateP(@, w, J),
                             ![t].qv = AccumulateQ(@, w, r, J),
                             ![t].seen = @ \cup {name}]
                       /\ Goto(t, "qp_next")
                       /\ UNCHANGED <<tasks_lock, ret>>
           ELSE IF name \notin DOMAIN errors \/ name \notin DOMAIN weights
              THEN /\ Release(t)
                   /\ Return(t, "compute_velocity", "keyerror", None)
           ELSE    LET e == D_target_term(name, loc[t].dt2)
                       w == weights[name]
                   IN  /\ loc' = [loc EXCEPT
                             ![t].P = AccumulateP(@, w, J),
                             ![t].qv = AccumulateQ(@, w, e, J),
                             ![t].seen = @ \cup {name}]
                       /\ Goto(t, "qp_next")
                       /\ UNCHANGED <<tasks_lock, ret>>
        /\ UNCHANGED <<registry, config, q, qd>>

(* constant velocity caps: +-1 (ik.py 68-69), +-qd_lim with qd_lim = 1 (inv. 41-42) *)
const_qd_max == U
const_qd_min == -U

(* position-aware terms: ik.py 142-143 (divided by dt), inv. 148-149 (not) *)
qd_max_doflim(qq, dt2) ==
    IF cls = "Velocity" THEN doflim_gain * (q_max - qq) * (U \div dt2)
                        ELSE doflim_gain * (q_max - qq) * (U \div 2)
qd_min_doflim(qq, dt2) ==
    IF cls = "Velocity" THEN doflim_gain * (q_min - qq) * (U \div dt2)
                        ELSE doflim_gain * (q_min - qq) * (U \div 2)

(* qd_max_of with the constant cap alone *)
qd_max_of_CapOnly(qq, dt2) == const_qd_max

(* ik.py 144-145, inv. 148-149 *)
qd_max_of(qq, dt2) == Min(const_qd_max, qd_max_doflim(qq, dt2))
qd_min_of(qq, dt2) == Max(const_qd_min, qd_min_doflim(qq, dt2))

(* qp_bounds with the rest of the method still inside the with block *)
qp_bounds_NoRelease(t) ==
    /\ pc[t] = "qp_bounds"
    /\ loc' = [loc EXCEPT ![t].hi = qd_max_of(q, loc[t].dt2),
                          ![t].lo = qd_min_of(q, loc[t].dt2)]
    /\ Goto(t, "solve")
    /\ UNCHANGED <<registry, config, tasks_lock, q, qd, ret>>

(* end of the with block, then the bounds (ik.py 142-146, inv. 148-149) *)
qp_bounds(t) ==
    /\ pc[t] = "qp_bounds"
    /\ Release(t)
    /\ loc' = [loc EXCEPT ![t].hi = qd_max_of(q, loc[t].dt2),
                          ![t].lo = qd_min_of(q, loc[t].dt2)]
    /\ Goto(t, "solve")
    /\ UNCHANGED <<registry, config, q, qd, ret>>

-----------------------------------------------------------------------------
(* The QP handed to the solver.  P is diagonal here (one active DOF, plus  *)
(* one margin variable for the safe strategy) and is kept as its diagonal. *)

(* fast: G = vstack([+I, -I]), h = hstack([qd_max, -qd_min])               *)
(*                                    ik.py 190-194, inv. 150-151          *)
FastQP_LowerBoundSign(P, qv, hi, lo) ==
    [P |-> <<P>>, q |-> <<qv>>, G |-> << <<1>>, <<-1>> >>, h |-> <<hi, lo>>]

FastQP(P, qv, hi, lo) ==
    [P |-> <<P>>, q |-> <<qv>>, G |-> << <<1>>, <<-1>> >>, h |-> <<hi, -lo>>]

(* margin_reg = 1e-5 and margin_lin = 1e-3, as their inverses (ik.py 196) *)
margin_reg_inv == 100000
margin_lin_inv == 1000

(* SafeQP with the sign of the last block row of G lost: m <= 0 *)
SafeQP_MarginSign(P, qv, hi, lo, dt2) ==
    [P |-> <<P * margin_reg_inv, 1>>,
     q |-> <<qv * margin_reg_inv, -(margin_reg_inv \div margin_lin_inv) * U>>,
     G |-> << <<dt2, 2>>, <<-dt2, 2>>, <<0, dt2>> >>,
     h |-> <<dt2 * hi, -dt2 * lo, 0>>]

(* safe: variables (qd, m)                                ik.py 225-231    *)
(*   P = [[P0, 0], [0, margin_reg]], q = [q0, -margin_lin]                 *)
(*   G = [[+1, +1/dt], [-1, +1/dt], [0, -1]], h = [qd_max, -qd_min, 0]     *)
(* The cost is scaled by 1/margin_reg and the rows of G, h by dt2, which   *)
(* changes neither the feasible set nor the minimisers.                    *)
SafeQP(P, qv, hi, lo, dt2) ==
    [P |-> <<P * margin_reg_inv, 1>>,
     q |-> <<qv * margin_reg_inv, -(margin_reg_inv \div margin_lin_inv) * U>>,
     G |-> << <<dt2, 2>>, <<-dt2, 2>>, <<0, -dt2>> >>,
     h |-> <<dt2 * hi, -dt2 * lo, 0>>]

-----------------------------------------------------------------------------
(* solve_qp(P, q, G, h): the external solver, by its contract: the         *)
(* minimiser of 0.5 x'Px + q'x subject to Gx <= h.  It is the solver whose *)
(* ValueError "matrix G is not positive definite" ik.py:153 recognises:    *)
(* that error is raised for every P that is not positive definite, a       *)
(* singular one included; inconsistent constraints raise another           *)
(* ValueError.  Candidate solutions are the points of a grid.  For the     *)
(* problems in one variable the grid holds the exact minimiser.  For the   *)
(* problems in two variables (velocity, margin) the exact minimiser lies   *)
(* off every grid, and any feasible point stands for it: the callers use   *)
(* its length and nothing else that depends on where in the feasible set   *)
(* it lies.                                                                *)

Grid == -(2 * U)..(2 * U)
Points(n) == IF n = 1 THEN {<<x>> : x \in Grid}
                      ELSE {<<x, m>> : x \in Grid, m \in -U..(2 * U)}

Dot(a, b) == IF Len(a) = 1 THEN a[1] * b[1] ELSE a[1] * b[1] + a[2] * b[2]

(* twice the cost of x, for a problem in one variable *)
QPCost(prob, x) == prob.P[1] * x[1] * x[1] + 2 * prob.q[1] * x[1]

FeasiblePoint(prob, x) ==
    \A i \in 1..Len(prob.G) : Dot(prob.G[i], x) <= prob.h[i]

Feasible(prob) == {x \in Points(Len(prob.P)) : FeasiblePoint(prob, x)}

PositiveDefinite(P) == \A i \in 1..Len(P) : P[i] > 0

(* what solve_qp raises, if anything *)
solve_qp_raises(prob) ==
    IF ~PositiveDefinite(prob.P) THEN "notpd"
    ELSE IF ~(\E x \in Points(Len(prob.P)) : FeasiblePoint(prob, x)) THEN "infeasible"
    ELSE "no"

(* what solve_qp returns when it does not raise: one of these *)
solve_qp(prob) ==
    LET F == Feasible(prob)
        C == {QPCost(prob, x) : x \in F}
        best == CHOOSE v \in C : \A w \in C : v <= w
    IN  IF Len(prob.P) = 1 THEN {x \in F : QPCost(prob, x) = best} ELSE F

-----------------------------------------------------------------------------
(* The solve.  What the call worked with goes into its outcome.            *)

CallInfo(t, x) ==
    Some([qd |-> x, method |-> loc[t].method, dt2 |-> loc[t].dt2,
          seen |-> loc[t].seen, P |-> loc[t].P, qv |-> loc[t].qv,
          lo |-> loc[t].lo, hi |-> loc[t].hi])

(* the QP of the chosen strategy (ik.py 190-193, 225-231; inv. 150-151) *)
BuildQP(t) ==
    IF loc[t].method = "safe"
       THEN SafeQP(loc[t].P, loc[t].qv, loc[t].hi, loc[t].lo, loc[t].dt2)
       ELSE FastQP(loc[t].P, loc[t].qv, loc[t].hi, loc[t].lo)

(* self.qd[self.active_dofs] = qd_active *)
WriteBack(full, x) ==
    [i \in 1..Len(full) |->
        IF \E k \in 1..Len(active_dofs) : active_dofs[k] = i
           THEN x[CHOOSE k \in 1..Len(active_dofs) : active_dofs[k] = i]
           ELSE full[i]]

(* VelocitySolver.__solve_qp                                ik.py 148-157  *)
(* The assignment into self.qd[active_dofs] raises ValueError (shapes do   *)
(* not match) when the solution, which has one entry per column of P, has  *)
(* another length than active_dofs; that error, like any other than "not   *)
(* positive definite", is re-raised.                                       *)
V_solve_qp(t) ==
    LET prob == BuildQP(t)
        raised == solve_qp_raises(prob)
    IN  /\ cls = "Velocity"
        /\ pc[t] = "solve"
        /\ IF raised = "no"
              THEN IF Len(prob.P) = Len(active_dofs)
                      THEN \E x \in solve_qp(prob) :
                              /\ qd' = WriteBack(qd, x)
                              /\ Return(t, "compute_velocity", "ok",
                                        CallInfo(t, WriteBack(qd, x)))
                      ELSE /\ qd' = qd
                           /\ Return(t, "compute_velocity", "valueerror",
                                     CallInfo(t, <<>>))
           ELSE IF raised = "notpd"
              THEN /\ qd' = qd
                   /\ Return(t, "compute_velocity", "ikerror", CallInfo(t, <<>>))
           ELSE    /\ qd' = qd
                   /\ Return(t, "compute_velocity", "valueerror", CallInfo(t, <<>>))
        /\ UNCHANGED <<registry, config, tasks_lock, q>>

(* DiffIKSolver.compute_velocity: return solve_qp(P, r, G, h)   inv. 150-152 *)
D_solve_qp(t) ==
    LET prob == BuildQP(t)
        raised == solve_qp_raises(prob)
    IN  /\ cls = "DiffIK"
        /\ pc[t] = "solve"
        /\ IF raised = "no"
              THEN \E x \in solve_qp(prob) :
                      Return(t, "compute_velocity", "ok", CallInfo(t, x))
           ELSE IF raised = "notpd"
              THEN Return(t, "compute_velocity", "notpd", CallInfo(t, <<>>))
           ELSE    Return(t, "compute_velocity", "valueerror", CallInfo(t, <<>>))
        /\ UNCHANGED <<registry, config, tasks_lock, q, qd>>

-----------------------------------------------------------------------------
(* Construction *)

Classes == {"DiffIK", "Velocity"}

(* ik.py 60-72, inv. 29-49 *)
InitSolver ==
    /\ tasks = EmptyMap
    /\ errors = EmptyMap
    /\ jacobians = EmptyMap
    /\ gains = EmptyMap
    /\ weights = EmptyMap
    /\ tasks_lock = 0
    /\ qd = [i \in 1..nb_dofs |-> 0]
    /\ pc = [t \in AllThreads |-> "idle"]
    /\ loc = [t \in AllThreads |-> Loc0]
    /\ ret = [t \in AllThreads |-> NoRet]

-----------------------------------------------------------------------------
(* The steps of a call in progress *)

RegistrySteps(t) ==
    \/ V_add_task_check(t)
    \/ add_task_lock(t)
    \/ V_add_task_insert(t)
    \/ D_add_task_check(t)
    \/ D_add_task_insert(t)
    \/ D_add_task_functions(t)
    \/ D_add_task_gain(t)
    \/ D_add_task_weight(t)
    \/ D_add_task_assert(t)
    \/ remove_task_lock(t)
    \/ remove_task_body(t)
    \/ get_task_lock(t)
    \/ get_task_body(t)

CostSteps(t) ==
    \/ compute_cost_next(t)
    \/ compute_cost_term(t)

VelocitySteps(t) ==
    \/ qp_lock(t)
    \/ qp_next(t)
    \/ qp_res(t)
    \/ qp_bounds(t)
    \/ V_solve_qp(t)
    \/ D_solve_qp(t)

-----------------------------------------------------------------------------
(* Spec: two threads calling into one solver.  Small argument sets. *)

VTasksC == {[name |-> n, weight |-> 1, gain |-> 2, target |-> tg, J |-> 1] :
               n \in Names, tg \in {0, 1}}
DArgsC == {[name |-> n, error |-> e, jacobian |-> 1, gain |-> g,
            weight |-> Some(1), task_type |-> NoType, unit_gain |-> FALSE] :
               n \in Names, e \in {0, 1}, g \in {None, Some(2)}}

Init ==
    /\ InitSolver
    /\ cls \in Classes
    /\ default_gains = EmptyMap
    /\ default_weights = EmptyMap
    /\ doflim_gain = 2
    /\ q = 0
    /\ history = FALSE

(* Thread 1 is the control thread, which also registers tasks; the other  *)
(* threads register, look up and remove tasks.                             *)
Next ==
    \/ \E task \in VTasksC : V_add_task(1, task)
    \/ \E args \in DArgsC : D_add_task(1, args)
    \/ compute_cost(1, 2)
    \/ \E method \in {"fast", "safe"} : compute_velocity(1, 2, method)
    \/ CostSteps(1)
    \/ VelocitySteps(1)
    \/ \E t \in AllThreads \ {1} :
          \/ \E task \in VTasksC : V_add_task(t, task)
          \/ \E args \in DArgsC : D_add_task(t, args)
          \/ \E name \in Names : remove_task(t, name)
          \/ \E name \in Names : get_task(t, name)
    \/ \E t \in AllThreads : RegistrySteps(t)

Spec == Init /\ [][Next]_vars

-----------------------------------------------------------------------------
(* SpecSeq: one caller at a time, the full argument sets. *)

VTasksS ==
    {[name |-> "a", weight |-> w, gain |-> g, target |-> tg, J |-> 1] :
        w \in {0, 1, 3}, g \in {2, 3}, tg \in {0, 1}}
    \cup {[name |-> "b", weight |-> 1, gain |-> 2, target |-> 0, J |-> 1]}

DArgsS ==
    {[name |-> "a", error |-> e, jacobian |-> 1, gain |-> g, weight |-> w,
      task_type |-> ty, unit_gain |-> u] :
        e \in {0, 1}, g \in {None, Some(-1), Some(0), Some(2), Some(3)},
        w \in {None, Some(0), Some(1)}, ty \in {NoType} \cup Types,
        u \in BOOLEAN}
    \cup {[name |-> "b", error |-> 0, jacobian |-> 1, gain |-> Some(2),
           weight |-> Some(1), task_type |-> NoType, unit_gain |-> FALSE],
          [name |-> "b", error |-> 0, jacobian |-> 1, gain |-> None,
           weight |-> None, task_type |-> "ty", unit_gain |-> FALSE]}

InitSeq ==
    /\ InitSolver
    /\ cls \in Classes
    /\ \E i \in 1..2 :
          /\ default_gains = IF i = 1 \/ cls = "Velocity" THEN EmptyMap
                             ELSE Put(Put(EmptyMap, "a", 1), "ty", 2)
          /\ default_weights = IF i = 1 \/ cls = "Velocity" THEN EmptyMap
                               ELSE Put(Put(EmptyMap, "a", 1), "ty", 3)
    /\ doflim_gain = 2
    /\ q = 0
    /\ history = TRUE

NextSeq ==
    \/ \E task \in VTasksS : V_add_task(1, task)
    \/ \E args \in DArgsS : D_add_task(1, args)
    \/ \E name \in Names : remove_task(1, name)
    \/ \E name \in Names : get_task(1, name)
    \/ compute_cost(1, 2)
    \/ \E method \in {"fast", "safe"} : compute_velocity(1, 2, method)
    \/ RegistrySteps(1)
    \/ CostSteps(1)
    \/ VelocitySteps(1)

SpecSeq == InitSeq /\ [][NextSeq]_vars

-----------------------------------------------------------------------------
(* SpecQP: the velocity computation as a function of its inputs.  The      *)
(* solver starts with a registry of valid tasks, as successful add_task    *)
(* calls leave it, at any configuration q (one step beyond the position    *)
(* limits included) and any doflim_gain in {0, 1/2, 1}; the control thread *)
(* then calls compute_velocity with dt in {1/2, 1, 2}.  Task "a" ranges    *)
(* over targets, weights and gains; task "b" is a fixed second task.       *)

QPTargets == {-MaxTarget, -1, 0, 1, MaxTarget}
QRange == (q_min - 1)..(q_max + 1)
Dt2s == {1, 2, 4}

(* task "a": [target, J, weight, gain, unit_gain] *)
QPTaskA ==
    {[target |-> tg, J |-> 1, weight |-> wg[1], gain |-> wg[2], unit_gain |-> FALSE] :
        tg \in QPTargets, wg \in {<<1, 2>>, <<3, 2>>, <<1, 1>>}}
    \cup {[target |-> 1, J |-> 0, weight |-> 1, gain |-> 2, unit_gain |-> FALSE]}
    \cup {[target |-> tg, J |-> 1, weight |-> 1, gain |-> 2, unit_gain |-> TRUE] :
        tg \in QPTargets}
QPTaskB == [target |-> 0, J |-> 1, weight |-> 1, gain |-> 2, unit_gain |-> FALSE]

(* the registry holding the tasks of ts: name -> task description *)
QPRegistry(ts) ==
    IF cls = "Velocity"
       THEN /\ tasks = [n \in DOMAIN ts |->
                          [name |-> n, weight |-> ts[n].weight, gain |-> ts[n].gain,
                           target |-> ts[n].target, J |-> ts[n].J]]
            /\ errors = EmptyMap
            /\ jacobians = EmptyMap
            /\ gains = EmptyMap
            /\ weights = EmptyMap
       ELSE /\ tasks = [n \in DOMAIN ts |-> TRUE]
            /\ errors = [n \in DOMAIN ts |-> ts[n].target]
            /\ jacobians = [n \in DOMAIN ts |-> ts[n].J]
            /\ gains = [n \in {m \in DOMAIN ts : ~ts[m].unit_gain} |-> ts[n].gain]
            /\ weights = [n \in DOMAIN ts |-> ts[n].weight]

QPTaskSets(c) ==
    LET As == {a \in QPTaskA : c = "DiffIK" \/ ~a.unit_gain}
    IN  {EmptyMap, Put(EmptyMap, "b", QPTaskB)}
        \cup {Put(EmptyMap, "a", a) : a \in As}
        \cup {Put(Put(EmptyMap, "a", a), "b", QPTaskB) : a \in As}

InitQP ==
    /\ cls \in Classes
    /\ \E ts \in QPTaskSets(cls) : QPRegistry(ts)
    /\ default_gains = EmptyMap
    /\ default_weights = EmptyMap
    /\ tasks_lock = 0
    /\ qd = [i \in 1..nb_dofs |-> 0]
    /\ pc = [t \in AllThreads |-> "idle"]
    /\ loc = [t \in AllThreads |-> Loc0]
    /\ ret = [t \in AllThreads |-> NoRet]
    /\ doflim_gain \in 0..2
    /\ q \in QRange
    /\ history = FALSE

NextQP ==
    \/ \E dt2 \in Dt2s, method \in {"fast", "safe"} : compute_velocity(1, dt2, method)
    \/ VelocitySteps(1)

SpecQP == InitQP /\ [][NextQP]_vars

-----------------------------------------------------------------------------
(* Properties of the task registry (SpecSeq) *)

Returns(t, op) == pc[t] # "idle" /\ pc'[t] = "idle" /\ ret'[t].op = op

ValidationFailures == {"check", "nogain", "noweight", "badgain", "badweight"}

(* C1: registration is all-or-nothing.  Whenever an add_task call fails    *)
(* validation (no gain, no weight, gain too large, weight not positive,    *)
(* or task.check() failing), the registry after the call is the registry   *)
(* the call started from (so a name that was not registered before the     *)
(* call is not registered after it).                                       *)
C1_AllOrNothing ==
    [][\A t \in AllThreads :
          (Returns(t, "add_task") /\ ret'[t].kind \in ValidationFailures)
          => Registry' = Val(loc[t].snap)]_vars

(* C2, as claimed: add_task with a registered name, called alone, fails    *)
(* with the duplicate-task error and leaves the registry as it was.        *)
C2_DuplicateAlwaysDuplicateError ==
    [][\A t \in AllThreads :
          (pc[t] = "add_chk" /\ loc[t].name \in DOMAIN tasks)
          => /\ Returns(t, "add_task")
             /\ ret'[t].kind = "dup"
             /\ Registry' = Val(loc[t].snap)]_vars

(* C2, amended: add_task with a registered name, called alone, fails and   *)
(* leaves the registry (task set, and everything stored under the name)    *)
(* as it was when the call was made; the error is the duplicate-task       *)
(* error, except that VelocitySolver, which runs task.check() before the   *)
(* membership test, fails with the error of check() for an invalid task.   *)
C2_DuplicateFails ==
    [][\A t \in AllThreads :
          (pc[t] = "add_chk" /\ loc[t].name \in DOMAIN tasks)
          => /\ Returns(t, "add_task")
             /\ ret'[t].kind = IF cls = "Velocity" /\ ~TaskCheck(loc[t].task)
                                  THEN "check" ELSE "dup"
             /\ Registry' = Val(loc[t].snap)
             /\ Registry' = Registry]_vars

(* a duplicate add_task has been refused while another task stays registered *)
C2_Witness ==
    /\ pc[1] = "idle"
    /\ ret[1].op = "add_task"
    /\ ret[1].kind = "dup"
    /\ DOMAIN tasks = Names

(* C3: get_task and remove_task with a name that is not registered do not  *)
(* raise: they warn, return None and leave the registry as it was;         *)
(* remove_task with a registered name removes that name and no other.      *)
C3_UnknownNameIsSoft ==
    [][\A t \in AllThreads :
          /\ (pc[t] \in {"rm_body", "get_body"} /\ pc'[t] = "idle"
                /\ loc[t].name \notin DOMAIN tasks)
             => /\ ret'[t].kind = "warn"
                /\ ret'[t].val = None
                /\ Registry' = Registry
          /\ (pc[t] = "rm_body" /\ pc'[t] = "idle"
                /\ loc[t].name \in DOMAIN tasks)
             => /\ ret'[t].kind = "ok"
                /\ DOMAIN tasks' = DOMAIN tasks \ {loc[t].name}
                /\ \A n \in DOMAIN tasks' : tasks'[n] = tasks[n]]_vars

(* remove_task of an unknown name has warned while a task is registered *)
C3_Witness ==
    /\ pc[1] = "idle"
    /\ ret[1].op = "remove_task"
    /\ ret[1].kind = "warn"
    /\ DOMAIN tasks # {}

-----------------------------------------------------------------------------
(* Properties of the locking discipline (Spec) *)

InAssembly(t) == pc[t] \in {"qp_next", "qp_res", "qp_bounds"}
InCostLoop(t) == pc[t] \in {"cost_next", "cost_term"}

(* C4: the cost assembly of compute_velocity holds the lock from before    *)
(* it reads the first task until after it has read the last one: while a   *)
(* thread is in the assembly it holds the lock, no step changes the        *)
(* registry (not between two tasks, not between the Jacobian and the       *)
(* residual of one task), and at the end of the loop the tasks accumulated *)
(* into (P, q) are exactly the task set.                                   *)
C4_AssemblyUnderLock ==
    /\ [](\A t \in AllThreads :
            /\ InAssembly(t) => tasks_lock = t
            /\ pc[t] = "qp_bounds" => loc[t].seen = DOMAIN tasks)
    /\ [][\A t \in AllThreads : InAssembly(t) => Registry' = Registry]_vars

(* the assembly has read the Jacobian of its second task and not yet its   *)
(* residual, while another thread waits for the lock to add or remove      *)
C4_Witness ==
    /\ pc[1] = "qp_res"
    /\ loc[1].seen # {}
    /\ pc[2] \in {"add_lock", "rm_lock"}

(* C5: compute_cost holds the lock for the whole of its iteration over the *)
(* tasks: under every interleaving, no add or remove changes the task set  *)
(* while compute_cost is iterating.                                        *)
C5_CostSeesOneTaskSet ==
    [][\A t \in AllThreads : InCostLoop(t) => tasks' = tasks]_vars

(* C6: the lock is released before the QP solve and not taken again during *)
(* it: a thread in the solve does not hold the lock, so another thread     *)
(* waiting to add, look up or remove a task can take it whenever no third  *)
(* thread holds it.                                                        *)
C6_SolveOutsideLock ==
    \A t \in AllThreads :
        pc[t] = "solve" =>
            /\ tasks_lock # t
            /\ \A u \in AllThreads \ {t} :
                  (tasks_lock = 0 /\ pc[u] = "add_lock") => ENABLED add_task_lock(u)

(* a task was registered by thread 2 while thread 1, whose assembly saw an *)
(* empty registry, is still in its solve                                   *)
C6_Witness ==
    /\ pc[1] = "solve"
    /\ loc[1].seen = {}
    /\ pc[2] = "idle"
    /\ ret[2].op = "add_task"
    /\ ret[2].kind = "ok"
    /\ DOMAIN tasks # {}

-----------------------------------------------------------------------------
(* Properties of the velocity computation (SpecQP) *)

Info(t) == Val(ret[t].val)
Finished(t) == pc[t] = "idle" /\ ret[t].op = "compute_velocity"
Returned(t) == Finished(t) /\ ret[t].kind = "ok"

(* the active-DOF velocity in what compute_velocity returned: self.qd for  *)
(* VelocitySolver (full dimension), the solution itself for DiffIKSolver   *)
ActiveVelocity(t) ==
    IF cls = "Velocity" THEN Info(t).qd[active_dofs[1]] ELSE Info(t).qd[1]

(* C7: a fast-strategy solve that returns, returns an active-DOF velocity  *)
(* within the position-aware bounds computed in that call.                 *)
C7_FastWithinBounds ==
    \A t \in AllThreads :
        (Returned(t) /\ Info(t).method = "fast") =>
            /\ Info(t).hi = qd_max_of(q, Info(t).dt2)
            /\ Info(t).lo = qd_min_of(q, Info(t).dt2)
            /\ Info(t).lo <= ActiveVelocity(t)
            /\ ActiveVelocity(t) <= Info(t).hi

(* a fast solve returned a velocity saturated at a position-aware upper    *)
(* bound that is below the constant cap                                    *)
C7_Witness ==
    /\ Returned(1)
    /\ Info(1).method = "fast"
    /\ Info(1).seen = Names
    /\ ActiveVelocity(1) = Info(1).hi
    /\ Info(1).hi < const_qd_max
    /\ Info(1).hi > 0

(* the scenario of C8: the single task "a" with Jacobian 1, weight 1 and   *)
(* gain 1, K * (q_max - q) and K * (q_min - q) outside [-1, 1]             *)
C8_Scenario ==
    /\ DOMAIN tasks = {"a"}
    /\ IF cls = "Velocity"
          THEN tasks["a"].J = 1 /\ tasks["a"].weight = 1 /\ tasks["a"].gain = 2
          ELSE /\ jacobians["a"] = 1
               /\ weights["a"] = 1
               /\ "a" \in DOMAIN gains
               /\ gains["a"] = 2
    /\ doflim_gain * (q_max - q) >= 2
    /\ doflim_gain * (q_min - q) <= -2

C8_Target == IF cls = "Velocity" THEN tasks["a"].target ELSE errors["a"]

Clamp(v, lo, hi) == Max(lo, Min(hi, v))

C10_ZeroGainIsPureCap ==
    \A t \in AllThreads :
        (pc[t] = "solve" /\ doflim_gain = 0)
        => (loc[t].hi = const_qd_max /\ loc[t].lo = const_qd_min)

(* C10, amended: with K = 0 the position limits play no part in the        *)
(* bounds, but the bounds are not the constant caps: for every q and dt    *)
(* they are qd_max = min(cap, 0) = 0 and qd_min = max(-cap, 0) = 0, so the *)
(* only velocity allowed is zero.                                          *)
C10_ZeroGainPinsVelocity ==
    \A t \in AllThreads :
        (pc[t] = "solve" /\ doflim_gain = 0)
        => (loc[t].hi = 0 /\ loc[t].lo = 0)

(* the bounds were computed with K = 0 away from q = 0, with a task set *)
C10_Witness ==
    /\ pc[1] = "solve"
    /\ doflim_gain = 0
    /\ q # 0
    /\ loc[1].dt2 = 1
    /\ loc[1].seen # {}

-----------------------------------------------------------------------------
(* Properties of the bounds and of the failures of the solve (SpecQP) *)

(* C11: at every evaluation of the velocity bounds, for every q (at or     *)
(* beyond a position limit included), every K in [0, 1] and every dt,      *)
(* qd_min <= qd_max.                                                       *)
C11_BoxNeverEmpty ==
    \A t \in AllThreads : pc[t] = "solve" => loc[t].lo <= loc[t].hi

(* C12: a solve that fails because the cost matrix is not positive         *)
(* definite makes compute_velocity fail with the rank-deficiency error     *)
(* IKError; a solve that fails for another reason (here: constraints that  *)
(* no point satisfies) fails with the solver's own error.                  *)
C12_FailuresTranslated ==
    \A t \in AllThreads :
        Finished(t) =>
            /\ Info(t).P <= 0 => ret[t].kind = "ikerror"
            /\ (Info(t).P > 0 /\ Info(t).lo > Info(t).hi) => ret[t].kind = "valueerror"

-----------------------------------------------------------------------------
(* Properties of registration (SpecSeq) *)

(* C13: every task that add_task registers has weight > 0 and, unless it   *)
(* is a unit_gain task, a gain in [0, 1]; in particular no task with a     *)
(* negative gain is registered.                                            *)
C13_RegisteredTasksValid ==
    [][\A t \in AllThreads :
          (Returns(t, "add_task") /\ ret'[t].kind = "ok")
          => LET n == loc[t].name
             IN  IF cls = "Velocity"
                    THEN /\ tasks'[n].weight > 0
                         /\ tasks'[n].gain >= 0
                         /\ tasks'[n].gain <= 2
                    ELSE /\ weights'[n] > 0
                         /\ n \in DOMAIN gains' => (gains'[n] >= 0 /\ gains'[n] <= 2)]_vars

(* the ordered chain: the argument if given, else the default for the      *)
(* name, else the default for the task type, else nothing                  *)
C14_Resolve(arg, name, ty, defaults) ==
    IF arg # None THEN arg
    ELSE IF name \in DOMAIN defaults THEN Some(defaults[name])
    ELSE IF ty \in DOMAIN defaults THEN Some(defaults[ty])
    ELSE None

(* C14: DiffIKSolver.add_task resolves gain and weight each by the ordered *)
(* chain (explicit argument, an explicit 0 included; per-name default;     *)
(* per-type default; else the missing-gain / missing-weight error), and a  *)
(* unit_gain task needs no gain and gets no entry in gains.                *)
C14_ChainResolves ==
    [][\A t \in AllThreads :
          LET name == loc[t].name
              g == C14_Resolve(loc[t].gain, name, loc[t].task_type, default_gains)
              w == C14_Resolve(loc[t].weight, name, loc[t].task_type, default_weights)
          IN  /\ (pc[t] = "add_gain" /\ pc'[t] # "add_gain") =>
                    IF loc[t].unit_gain
                       THEN pc'[t] = "add_weight" /\ name \notin DOMAIN gains'
                    ELSE IF g = None
                       THEN Returns(t, "add_task") /\ ret'[t].kind = "nogain"
                    ELSE pc'[t] = "add_weight" /\ gains'[name] = Val(g)
              /\ (pc[t] = "add_weight" /\ pc'[t] # "add_weight") =>
                    IF w = None
                       THEN Returns(t, "add_task") /\ ret'[t].kind = "noweight"
                    ELSE pc'[t] = "add_assert" /\ weights'[name] = Val(w)]_vars

(* a gain was resolved, without argument, for a task whose name and whose  *)
(* type both have a default, and these differ: the per-name one was taken  *)
C14_Witness ==
    /\ pc[1] = "add_weight"
    /\ loc[1].gain = None
    /\ ~loc[1].unit_gain
    /\ loc[1].name \in DOMAIN default_gains
    /\ loc[1].task_type \in DOMAIN default_gains
    /\ default_gains[loc[1].name] # default_gains[loc[1].task_type]
    /\ gains[loc[1].name] = default_gains[loc[1].name]

-----------------------------------------------------------------------------
(* Properties of the assembled cost (SpecQP) *)

(* a single task "a" with Jacobian 1: its target term and its weight *)
C15_Scenario ==
    /\ DOMAIN tasks = {"a"}
    /\ IF cls = "Velocity" THEN tasks["a"].J = 1 ELSE jacobians["a"] = 1

C15_e(t) ==
    IF cls = "Velocity" THEN TaskResidual(tasks["a"], q, loc[t].dt2)
    ELSE D_target_term("a", loc[t].dt2)

C15_w == IF cls = "Velocity" THEN tasks["a"].weight ELSE weights["a"]

C16_SafeReturnsVelocity ==
    \A t \in AllThreads :
        (/\ Finished(t)
         /\ cls = "Velocity"
         /\ Info(t).method = "safe"
         /\ solve_qp_raises(SafeQP(Info(t).P, Info(t).qv, Info(t).hi,
                                   Info(t).lo, Info(t).dt2)) = "no")
        => /\ ret[t].kind = "ok"
           /\ Len(Info(t).qd) = nb_dofs
           /\ \A i \in 1..nb_dofs :
                 (\A k \in 1..Len(active_dofs) : active_dofs[k] # i)
                 => Info(t).qd[i] = 0

-----------------------------------------------------------------------------
(* Concurrent registration (Spec) *)

(* C17: when two threads call add_task with the same name, a registered    *)
(* task is never overwritten: the insertion of a call finds no task under  *)
(* the call's name.                                                        *)
C17_NeverOverwrites ==
    [][\A t \in AllThreads :
          (pc[t] = "add_ins" /\ pc'[t] # "add_ins")
          => loc[t].name \notin DOMAIN tasks]_vars

-----------------------------------------------------------------------------
(* Overshoot (SpecQP).  Velocities are in units of 1/U and dt in halves.   *)

(* C18: with q within the position limits, a velocity within the computed  *)
(* bounds takes q to q + qd dt within the limits (checked at the bounds    *)
(* themselves, where q + qd dt is extreme).                                *)
C18_NoOvershoot ==
    \A t \in AllThreads :
        (pc[t] = "solve" /\ q_min <= q /\ q <= q_max)
        => /\ loc[t].hi * loc[t].dt2 <= 2 * U * (q_max - q)
           /\ loc[t].lo * loc[t].dt2 >= 2 * U * (q_min - q)

-----------------------------------------------------------------------------
(* Per-task entries of DiffIKSolver (SpecSeq) *)

(* C19: every name in the task set of a DiffIKSolver has an error          *)
(* function, a Jacobian function and a weight stored for it.               *)
C19_EntriesComplete ==
    (cls = "DiffIK" /\ tasks_lock = 0) =>
        \A n \in DOMAIN tasks :
            n \in DOMAIN errors /\ n \in DOMAIN jacobians /\ n \in DOMAIN weights

-----------------------------------------------------------------------------
(* The constraints of the safe strategy (SpecQP) *)

(* C20: every point (qd, m) that satisfies the constraints of the safe     *)
(* strategy has qd_min <= qd <= qd_max.                                    *)
C20_SafeWithinBox ==
    \A t \in AllThreads :
        (pc[t] = "solve" /\ loc[t].method = "safe")
        => \A x \in Feasible(BuildQP(t)) :
              loc[t].lo <= x[1] /\ x[1] <= loc[t].hi

(* the safe constraints admit a point with a positive margin and a         *)
(* velocity strictly inside position-aware bounds                          *)
C20_Witness ==
    /\ pc[1] = "solve"
    /\ loc[1].method = "safe"
    /\ loc[1].hi < const_qd_max
    /\ \E x \in Feasible(BuildQP(1)) :
          x[2] > 0 /\ loc[1].lo < x[1] /\ x[1] < loc[1].hi

=============================================================================
